---- MODULE Spec2Model ----
(***************************************************************************)
(* Model of sysinfo_widget.py: one run of main() (flags, the five readers  *)
(* in call order, fragment assembly, the final print), and the zram reader *)
(* get_zram_usage on its own over a larger set of environments.            *)
(*                                                                         *)
(* Conventions.  A Python value that may be None is None or Some(v).  The  *)
(* result of an I/O step is Err (the step raised) or Ok(v).  Text is a     *)
(* sequence of one-character strings where the code inspects it (device    *)
(* names and swap paths); an output fragment is a sequence of tokens.      *)
(* One-decimal numbers (round(x, 1)) are integers counting tenths.         *)
(***************************************************************************)
EXTENDS Integers, Sequences, FiniteSets

None == [some |-> FALSE]
Some(x) == [some |-> TRUE, v |-> x]
Err == [ok |-> FALSE]
Ok(x) == [ok |-> TRUE, v |-> x]

(***************************************************************************)
(* Text helpers: str.startswith, str.endswith, the `in` substring test.    *)
(***************************************************************************)
StartsWith(s, p) == Len(s) >= Len(p) /\ SubSeq(s, 1, Len(p)) = p

EndsWith(s, p) == Len(s) >= Len(p) /\ SubSeq(s, Len(s) - Len(p) + 1, Len(s)) = p

Contains(s, p) == \E i \in 1..(Len(s) + 1) : i + Len(p) - 1 <= Len(s) /\ SubSeq(s, i, i + Len(p) - 1) = p

ZRAM == <<"z", "r", "a", "m">>
SWAP == <<"s", "w", "a", "p">>
SWAPFILE == <<"/", "s", "w", "a", "p", "f", "i", "l", "e">>
SWAPDIR == <<"/", "s", "w", "a", "p", "/">>
DEV == <<"/", "d", "e", "v", "/">>

(***************************************************************************)
(* Arithmetic helpers.  RoundDiv(n, d) is round(n / d) to the nearest      *)
(* integer, ties to the even neighbour, for d > 0: Python's round(x, 1) on *)
(* x = n / (10 * d) counted in tenths.  (A tie n/d = k + 1/2 is a dyadic   *)
(* x here, so the float is exact and Python rounds it half-even.)          *)
(***************************************************************************)
RoundDiv(n, d) ==
    LET q == n \div d
        r == n % d
    IN  IF 2 * r < d THEN q
        ELSE IF 2 * r > d THEN q + 1
        ELSE IF q % 2 = 0 THEN q ELSE q + 1

KiB == 1024
MiB == 1048576

\* format_gb(kb): round(kb / 1024 / 1024, 1), in tenths of a GB.
format_gb(kb) == RoundDiv(10 * kb, MiB)


(***************************************************************************)
(* get_cpu_temp.  sensors is Err (tool missing, non-zero exit, undecodable *)
(* output) or Ok(matches): the second group of each regex match in order,  *)
(* each Ok(tenths of a degree) or Err (digits and dots float() rejects).   *)
(***************************************************************************)
get_cpu_temp(sensors) ==
    IF ~sensors.ok THEN None
    ELSE IF Len(sensors.v) = 0 THEN None
    ELSE IF ~sensors.v[1].ok THEN None
    ELSE Some(sensors.v[1].v)

(***************************************************************************)
(* get_ram_usage.  vm is psutil.virtual_memory() in bytes; meminfo is Err  *)
(* (unreadable, or a line that does not parse) or Ok of the three fields   *)
(* the code looks up, each None when the file has no such key.             *)
(***************************************************************************)
MeminfoGet(field) == IF field.some THEN field.v ELSE 0

RamCachedKb(vm, meminfo) ==
    IF meminfo.ok
    THEN MeminfoGet(meminfo.v.Cached) + MeminfoGet(meminfo.v.SReclaimable) - MeminfoGet(meminfo.v.Shmem)
    ELSE vm.cached \div KiB

get_ram_usage(vm, meminfo) ==
    [used_mb |-> (vm.total - vm.available) \div MiB,
     total_mb |-> vm.total \div MiB,
     cached_mb |-> RamCachedKb(vm, meminfo) \div KiB]

(***************************************************************************)
(* /proc/swaps is Err (cannot be opened) or Ok(lines), header first.  A    *)
(* line is [path, size, used]: the first, third and fourth fields of       *)
(* split(); size and used are Ok(n) or Err (field missing or not an int).  *)
(***************************************************************************)
DataLines(lines) == IF Len(lines) = 0 THEN <<>> ELSE Tail(lines)

RECURSIVE SumField(_, _, _)
SumField(lines, i, used) ==
    IF i > Len(lines) THEN 0
    ELSE (IF used THEN lines[i].used.v ELSE lines[i].size.v) + SumField(lines, i + 1, used)

IsZramLine(l) == Contains(l.path, ZRAM)

\* Lines 61-70: the fallback of get_zram_usage.
ZramFromSwaps(swaps) ==
    IF ~swaps.ok THEN None
    ELSE LET zram_lines == SelectSeq(DataLines(swaps.v), IsZramLine)
         IN  IF \E i \in 1..Len(zram_lines) : ~zram_lines[i].used.ok \/ ~zram_lines[i].size.ok
             THEN None
             ELSE IF SumField(zram_lines, 1, FALSE) > 0
                  THEN Some(<<SumField(zram_lines, 1, TRUE), SumField(zram_lines, 1, FALSE)>>)
                  ELSE None

IsDiskSwap(path) == EndsWith(path, SWAP) \/ path = SWAPFILE \/ Contains(path, SWAPDIR)

RECURSIVE SwapScan(_, _)
SwapScan(lines, i) ==
    IF i > Len(lines) THEN None
    ELSE IF IsDiskSwap(lines[i].path)
         THEN IF lines[i].size.ok /\ lines[i].used.ok
              THEN Some(<<lines[i].used.v, lines[i].size.v>>)
              ELSE None
         ELSE SwapScan(lines, i + 1)

get_swap_usage(swaps) == IF ~swaps.ok THEN None ELSE SwapScan(DataLines(swaps.v), 1)

(***************************************************************************)
(* get_zram_usage, block-device loop.  An entry of the /sys/block listing  *)
(* is [name, compr, orig]: the device name and the contents of its         *)
(* compr_data_size and orig_data_size files, Ok(bytes) or Err (cannot be   *)
(* opened or is no integer).  acc holds the locals total_used, total_orig, *)
(* found.                                                                  *)
(***************************************************************************)
ZramAcc0 == [total_used |-> 0, total_orig |-> 0, found |-> FALSE]

\* A slip: the compressed size is added before the original size is read.
ReadDeviceEarlyAdd(e, acc) ==
    IF ~e.compr.ok THEN acc
    ELSE IF ~e.orig.ok THEN [acc EXCEPT !.total_used = @ + e.compr.v]
    ELSE [acc EXCEPT !.total_used = @ + e.compr.v, !.total_orig = @ + e.orig.v]

\* Lines 49-57: the try body for one zram device.
ReadDevice(e, acc) ==
    IF ~e.compr.ok THEN acc
    ELSE IF ~e.orig.ok THEN acc
    ELSE [acc EXCEPT !.total_used = @ + e.compr.v, !.total_orig = @ + e.orig.v]

RECURSIVE ZramLoop(_, _, _)
ZramLoop(entries, i, acc) ==
    IF i > Len(entries) THEN acc
    ELSE IF ~StartsWith(entries[i].name, ZRAM)
         THEN ZramLoop(entries, i + 1, acc)
         ELSE ZramLoop(entries, i + 1, ReadDevice(entries[i], [acc EXCEPT !.found = TRUE]))

\* A slip: the guard tests the compressed sum instead of the original sum.
ZramPrimaryHitOnUsed(acc) == acc.found /\ acc.total_used > 0

\* Line 58.
ZramPrimaryHit(acc) == acc.found /\ acc.total_orig > 0

\* Line 60.
ZramPrimaryValue(acc) == Some(<<acc.total_used \div KiB, acc.total_orig \div KiB>>)

\* Lines 40-72 with the listing read: the return value, the locals at the
\* end of the loop, and whether /proc/swaps was opened.
get_zram_usage(entries, swaps) ==
    LET acc == ZramLoop(entries, 1, ZramAcc0)
    IN  IF ZramPrimaryHit(acc)
        THEN [ret |-> ZramPrimaryValue(acc), locals |-> acc, opened_swaps |-> FALSE]
        ELSE [ret |-> ZramFromSwaps(swaps), locals |-> acc, opened_swaps |-> TRUE]

(***************************************************************************)
(* Presentation.  Tokens of a fragment: Lit (literal text), F1 (a float    *)
(* printed with one decimal, in tenths), IntTok (an int), Glyph (an icon), *)
(* Esc (an ANSI colour escape).                                            *)
(***************************************************************************)
Lit(s) == [lit |-> s]
F1(n) == [f1 |-> n]
IntTok(n) == [int |-> n]
Glyph(g) == [glyph |-> g]
Esc(c) == [esc |-> c]

RED == Esc("31m")
YELLOW == Esc("33m")
GREEN == Esc("32m")
RESET == Esc("0m")

\* color(val, warn, crit, minimal): txt is str(val); val, warn and crit are
\* given in one common integer scale.
color(txt, val, warn, crit, minimal) ==
    IF minimal THEN <<txt>>
    ELSE IF val >= crit THEN <<RED, txt, RESET>>
    ELSE IF val >= warn THEN <<YELLOW, txt, RESET>>
    ELSE <<GREEN, txt, RESET>>

RATIO_CRIT == 2
RATIO_WARN == 3

\* color_ratio(val, minimal): val in tenths.
color_ratio(val, minimal) ==
    IF minimal THEN <<F1(val)>>
    ELSE IF val < 10 * RATIO_CRIT THEN <<RED, F1(val), RESET>>
    ELSE IF val < 10 * RATIO_WARN THEN <<YELLOW, F1(val), RESET>>
    ELSE <<GREEN, F1(val), RESET>>

IconGlyph(label) ==
    CASE label = "cpu" -> Glyph("brain")
      [] label = "temp" -> Glyph("thermometer")
      [] label = "ram" -> Glyph("floppy")
      [] label = "zram" -> Glyph("package")

icon(label, minimal) == IF minimal THEN Lit(label) ELSE IconGlyph(label)

SwapIcon(minimal) == IF minimal THEN Lit("SWP") ELSE Glyph("disk")

CPU_WARN == 70
CPU_CRIT == 90
TEMP_WARN == 70
TEMP_CRIT == 85
RAM_WARN_PCT == 75
RAM_CRIT_PCT == 90

\* Line 150; cpu in tenths of a percent.
CpuFragment(c, minimal) ==
    <<icon("cpu", minimal), Lit(" ")>> \o color(F1(c), c, 10 * CPU_WARN, 10 * CPU_CRIT, minimal) \o <<Lit("%")>>

\* Line 153; int(temp) truncates the tenths.
TempFragment(t, minimal) ==
    <<icon("temp", minimal), Lit(" ")>>
        \o color(IntTok(t \div 10), t \div 10, TEMP_WARN, TEMP_CRIT, minimal) \o <<Lit("degC")>>

\* Lines 156-162; used, total, cached in MB.  The thresholds total_gb*0.75
\* and total_gb*0.9 are compared in thousandths of a GB.
RamFragment(used, total, cached, minimal, hide_ram_cache) ==
    LET used_gb == RoundDiv(10 * used, KiB)
        total_gb == RoundDiv(10 * total, KiB)
        cached_gb == RoundDiv(10 * cached, KiB)
    IN  <<icon("ram", minimal), Lit(" ")>>
            \o color(F1(used_gb), 100 * used_gb, RAM_WARN_PCT * total_gb, RAM_CRIT_PCT * total_gb, minimal)
            \o <<Lit("/"), F1(total_gb), Lit("GB")>>
            \o (IF hide_ram_cache THEN <<>> ELSE <<Lit(" (cache "), F1(cached_gb), Lit("GB)")>>)

\* A slip: the ratio is appended whenever it is requested.
RatioPartAlways(z_used_kb, z_total_kb, show_ratio, minimal) ==
    IF show_ratio
    THEN <<Lit(" (")>> \o color_ratio(IF z_used_kb > 0 THEN RoundDiv(10 * z_total_kb, z_used_kb) ELSE 0, minimal) \o <<Lit(":1)")>>
    ELSE <<>>

\* Lines 169-172.
RatioPart(z_used_kb, z_total_kb, show_ratio, minimal) ==
    IF show_ratio /\ z_used_kb > 0
    THEN <<Lit(" (")>> \o color_ratio(RoundDiv(10 * z_total_kb, z_used_kb), minimal) \o <<Lit(":1)")>>
    ELSE <<>>

\* Line 174 divides by z_total_kb.
SavedRaises(z_used_kb, z_total_kb, show_saved) == show_saved /\ z_used_kb > 0 /\ z_total_kb = 0

\* Lines 173-175, when line 174 does not raise.
SavedPart(z_used_kb, z_total_kb, show_saved) ==
    IF show_saved /\ z_used_kb > 0
    THEN <<Lit(" Saved "), F1(RoundDiv(1000 * (z_total_kb - z_used_kb), z_total_kb)), Lit("%")>>
    ELSE <<>>

\* Lines 165-176.
ZramFragment(z, minimal, show_ratio, show_saved) ==
    <<icon("zram", minimal), Lit(" "), F1(format_gb(z[1])), Lit("/"), F1(format_gb(z[2])), Lit("GB")>>
        \o RatioPart(z[1], z[2], show_ratio, minimal)
        \o SavedPart(z[1], z[2], show_saved)

\* Line 178.
ZramPlaceholder(minimal) == <<icon("zram", minimal), Lit(" -")>>

\* A slip: the red wrapping of a used swap does not look at minimal.
SwapFragmentAlwaysRed(s, minimal) ==
    LET swap_str == <<F1(format_gb(s[1])), Lit("/"), F1(format_gb(s[2])), Lit("GB")>>
    IN  <<SwapIcon(minimal), Lit(" ")>>
            \o (IF s[1] > 0 THEN <<RED>> \o swap_str \o <<RESET>> ELSE swap_str)

\* Lines 181-187.
SwapFragment(s, minimal) ==
    LET swap_str == <<F1(format_gb(s[1])), Lit("/"), F1(format_gb(s[2])), Lit("GB")>>
    IN  <<SwapIcon(minimal), Lit(" ")>>
            \o (IF s[1] > 0 /\ ~minimal THEN <<RED>> \o swap_str \o <<RESET>> ELSE swap_str)

\* " ".join(parts), as one flat token sequence.
RECURSIVE Join(_)
Join(parts) ==
    IF Len(parts) = 0 THEN <<>>
    ELSE IF Len(parts) = 1 THEN parts[1]
    ELSE parts[1] \o <<Lit(" ")>> \o Join(Tail(parts))

(***************************************************************************)
(* Environments the readers sample.                                        *)
(***************************************************************************)
Header == [path |-> <<"F", "i", "l", "e", "n", "a", "m", "e">>, size |-> Err, used |-> Err]
ZramLine(size, used) == [path |-> DEV \o ZRAM \o <<"0">>, size |-> size, used |-> used]
FileLine(size, used) == [path |-> SWAPFILE, size |-> size, used |-> used]
PartLine(size, used) == [path |-> DEV \o <<"s", "d", "a", "2">>, size |-> size, used |-> used]

SwapsNoEntry == Ok(<<Header>>)
SwapsZram == Ok(<<Header, ZramLine(Ok(1048576), Ok(262144))>>)

SwapsFiles ==
    {Err,
     Ok(<<>>),
     SwapsNoEntry,
     SwapsZram,
     Ok(<<Header, PartLine(Ok(1048576), Ok(0))>>),
     Ok(<<Header, FileLine(Ok(2097152), Ok(0))>>),
     Ok(<<Header, ZramLine(Ok(1048576), Ok(0)), FileLine(Ok(2097152), Ok(524288))>>),
     Ok(<<Header, FileLine(Err, Ok(0))>>)}

ZramSwapsFiles ==
    {Err,
     SwapsNoEntry,
     SwapsZram,
     Ok(<<Header, ZramLine(Ok(0), Ok(0))>>),
     Ok(<<Header, ZramLine(Ok(1048576), Err)>>),
     Ok(<<Header, FileLine(Ok(2097152), Ok(524288))>>)}

CpuOutcomes == {Err, Ok(125), Ok(950)}

SensorsOutcomes == {Err, Ok(<<>>), Ok(<<Err>>), Ok(<<Ok(455)>>), Ok(<<Ok(725), Ok(455)>>)}

VmStats == [total |-> 1073741824, available |-> 268435456, cached |-> 314572800]
Meminfo(c, s, sh) == Ok([Cached |-> c, SReclaimable |-> s, Shmem |-> sh])

MeminfoOutcomes ==
    {Err,
     Meminfo(Some(204800), Some(51200), Some(10240)),
     Meminfo(Some(2048), None, None),
     Meminfo(Some(1024), Some(0), Some(4096))}

Sda == [name |-> <<"s", "d", "a">>, compr |-> Err, orig |-> Err]
Ram0 == [name |-> <<"r", "a", "m", "0">>, compr |-> Err, orig |-> Err]
Zram(n, compr, orig) == [name |-> ZRAM \o <<n>>, compr |-> compr, orig |-> orig]

\* The environments main() is run against for the zram reader.
ZramScenarios ==
    {[sys_block |-> Err, proc_swaps |-> SwapsNoEntry],
     [sys_block |-> Ok(<<Sda>>), proc_swaps |-> SwapsNoEntry],
     [sys_block |-> Ok(<<Sda>>), proc_swaps |-> SwapsZram],
     [sys_block |-> Ok(<<Sda, Zram("0", Ok(104857600), Ok(419430400)), Zram("1", Ok(52428800), Ok(209715200))>>),
      proc_swaps |-> SwapsZram],
     [sys_block |-> Ok(<<Zram("0", Ok(2048), Ok(512))>>), proc_swaps |-> SwapsNoEntry],
     [sys_block |-> Ok(<<Zram("0", Ok(3072), Ok(4096))>>), proc_swaps |-> SwapsNoEntry],
     [sys_block |-> Ok(<<Zram("0", Ok(2048), Ok(5120))>>), proc_swaps |-> SwapsNoEntry],
     [sys_block |-> Ok(<<Zram("0", Ok(0), Ok(4096))>>), proc_swaps |-> SwapsZram],
     [sys_block |-> Ok(<<Zram("0", Err, Err)>>), proc_swaps |-> SwapsZram],
     [sys_block |-> Ok(<<Zram("0", Ok(0), Ok(0))>>), proc_swaps |-> SwapsNoEntry]}

\* The environments the zram reader is run against on its own: every
\* listing of at most MaxDevs entries.
MaxDevs == 2
CounterFiles == {Err, Ok(0), Ok(2048)}
OrigFiles == {Err, Ok(0), Ok(4096)}
BlockEntries == {Sda, Ram0} \cup {Zram("0", c, o) : c \in CounterFiles, o \in OrigFiles}
Listings == UNION {[1..n -> BlockEntries] : n \in 0..MaxDevs}

(***************************************************************************)
(* State of one run.                                                       *)
(***************************************************************************)
VARIABLES
    args,           \* the parsed flags
    pc,             \* where main() is
    cpu, temp, swap, used_ram, total_ram, cached_ram, zram,   \* main's locals
    output_parts,   \* the fragments assembled
    stdout,         \* the lines printed
    calls,          \* the readers invoked, in order
    crashSite,      \* the function an uncaught exception came out of
    zram_env,       \* what get_zram_usage was run against
    zram_locals,    \* its total_used, total_orig, found after the loop
    opened_swaps    \* whether it opened /proc/swaps

vars == <<args, pc, cpu, temp, swap, used_ram, total_ram, cached_ram, zram, output_parts,
          stdout, calls, crashSite, zram_env, zram_locals, opened_swaps>>

Flags == {"minimal", "ratio", "saved", "no_cpu", "no_cpu_temp", "no_ram", "no_ram_cache", "no_zram", "no_swap"}

Init ==
    /\ args \in [Flags -> BOOLEAN]
    /\ pc = "cpu"
    /\ cpu = None /\ temp = None /\ swap = None
    /\ used_ram = None /\ total_ram = None /\ cached_ram = None
    /\ zram = None
    /\ output_parts = <<>>
    /\ stdout = <<>>
    /\ calls = <<>>
    /\ crashSite = "none"
    /\ zram_env = None
    /\ zram_locals = ZramAcc0
    /\ opened_swaps = FALSE

Raise(site) == pc' = "crashed" /\ crashSite' = site

\* Line 133.
CallCpu ==
    /\ pc = "cpu"
    /\ \/ /\ args["no_cpu"]
          /\ pc' = "temp"
          /\ UNCHANGED <<cpu, calls, crashSite>>
       \/ /\ ~args["no_cpu"]
          /\ calls' = Append(calls, "get_cpu_usage")
          /\ \E o \in CpuOutcomes :
                IF o.ok
                THEN cpu' = Some(o.v) /\ pc' = "temp" /\ UNCHANGED crashSite
                ELSE Raise("get_cpu_usage") /\ UNCHANGED cpu
    /\ UNCHANGED <<args, temp, swap, used_ram, total_ram, cached_ram, zram, output_parts, stdout,
                   zram_env, zram_locals, opened_swaps>>

\* Line 134.
CallTemp ==
    /\ pc = "temp"
    /\ \/ /\ args["no_cpu_temp"]
          /\ UNCHANGED <<temp, calls>>
       \/ /\ ~args["no_cpu_temp"]
          /\ calls' = Append(calls, "get_cpu_temp")
          /\ \E o \in SensorsOutcomes : temp' = get_cpu_temp(o)
    /\ pc' = "swap"
    /\ UNCHANGED <<args, cpu, swap, used_ram, total_ram, cached_ram, zram, output_parts, stdout,
                   crashSite, zram_env, zram_locals, opened_swaps>>

\* Line 135.
CallSwap ==
    /\ pc = "swap"
    /\ \/ /\ args["no_swap"]
          /\ UNCHANGED <<swap, calls>>
       \/ /\ ~args["no_swap"]
          /\ calls' = Append(calls, "get_swap_usage")
          /\ \E f \in SwapsFiles : swap' = get_swap_usage(f)
    /\ pc' = "ram"
    /\ UNCHANGED <<args, cpu, temp, used_ram, total_ram, cached_ram, zram, output_parts, stdout,
                   crashSite, zram_env, zram_locals, opened_swaps>>

\* Lines 136-139.
CallRam ==
    /\ pc = "ram"
    /\ \/ /\ args["no_ram"]
          /\ UNCHANGED <<used_ram, total_ram, cached_ram, calls>>
       \/ /\ ~args["no_ram"]
          /\ calls' = Append(calls, "get_ram_usage")
          /\ \E m \in MeminfoOutcomes :
                LET r == get_ram_usage(VmStats, m)
                IN  /\ used_ram' = Some(r.used_mb)
                    /\ total_ram' = Some(r.total_mb)
                    /\ cached_ram' = Some(r.cached_mb)
    /\ pc' = "zram"
    /\ UNCHANGED <<args, cpu, temp, swap, zram, output_parts, stdout, crashSite, zram_env,
                   zram_locals, opened_swaps>>

\* Line 141 with zram enabled: get_zram_usage against one environment.
ZramCall(listing, swaps) ==
    /\ pc = "zram"
    /\ ~args["no_zram"]
    /\ calls' = Append(calls, "get_zram_usage")
    /\ zram_env' = Some([sys_block |-> listing, proc_swaps |-> swaps])
    /\ IF listing.ok
       THEN LET r == get_zram_usage(listing.v, swaps)
            IN  /\ zram' = r.ret
                /\ zram_locals' = r.locals
                /\ opened_swaps' = r.opened_swaps
                /\ pc' = "assemble"
                /\ UNCHANGED crashSite
       ELSE /\ Raise("get_zram_usage")
            /\ UNCHANGED <<zram, zram_locals, opened_swaps>>
    /\ UNCHANGED <<args, cpu, temp, swap, used_ram, total_ram, cached_ram, output_parts, stdout>>

\* Line 141.
CallZram ==
    \/ /\ pc = "zram"
       /\ args["no_zram"]
       /\ pc' = "assemble"
       /\ UNCHANGED <<args, cpu, temp, swap, used_ram, total_ram, cached_ram, zram, output_parts,
                      stdout, calls, crashSite, zram_env, zram_locals, opened_swaps>>
    \/ \E sc \in ZramScenarios : ZramCall(sc.sys_block, sc.proc_swaps)

\* Lines 149-150.
CpuPart == IF cpu.some THEN <<CpuFragment(cpu.v, args["minimal"])>> ELSE <<>>

\* Lines 152-153.
TempPart == IF temp.some THEN <<TempFragment(temp.v, args["minimal"])>> ELSE <<>>

\* Lines 155-162.
RamPart ==
    IF used_ram.some /\ total_ram.some
    THEN <<RamFragment(used_ram.v, total_ram.v, cached_ram.v, args["minimal"], args["no_ram_cache"])>>
    ELSE <<>>

\* A slip: an absent zram value is omitted like every other metric.
ZramPartNoPlaceholder ==
    IF zram.some
    THEN <<ZramFragment(zram.v, args["minimal"], args["ratio"], args["saved"])>>
    ELSE <<>>

\* A slip: the placeholder does not look at the no_zram flag.
ZramPartPlaceholderAlways ==
    IF zram.some
    THEN <<ZramFragment(zram.v, args["minimal"], args["ratio"], args["saved"])>>
    ELSE <<ZramPlaceholder(args["minimal"])>>

\* Lines 164-178.
ZramPart ==
    IF zram.some
    THEN <<ZramFragment(zram.v, args["minimal"], args["ratio"], args["saved"])>>
    ELSE IF ~args["no_zram"] THEN <<ZramPlaceholder(args["minimal"])>> ELSE <<>>

\* Lines 180-187.
SwapPart == IF swap.some THEN <<SwapFragment(swap.v, args["minimal"])>> ELSE <<>>

\* A slip: the fragments are appended in the order the readers are called.
FragmentsCallOrder == CpuPart \o TempPart \o SwapPart \o RamPart \o ZramPart

\* Lines 147-187 when nothing raises.
Fragments == CpuPart \o TempPart \o RamPart \o ZramPart \o SwapPart

\* Lines 143-187.
Assemble ==
    /\ pc = "assemble"
    /\ IF zram.some /\ SavedRaises(zram.v[1], zram.v[2], args["saved"])
       THEN Raise("main") /\ UNCHANGED output_parts
       ELSE output_parts' = Fragments /\ pc' = "print" /\ UNCHANGED crashSite
    /\ UNCHANGED <<args, cpu, temp, swap, used_ram, total_ram, cached_ram, zram, stdout, calls,
                   zram_env, zram_locals, opened_swaps>>

\* Line 189.
PrintLine ==
    /\ pc = "print"
    /\ stdout' = Append(stdout, Join(output_parts))
    /\ pc' = "done"
    /\ UNCHANGED <<args, cpu, temp, swap, used_ram, total_ram, cached_ram, zram, output_parts,
                   calls, crashSite, zram_env, zram_locals, opened_swaps>>

Next == CallCpu \/ CallTemp \/ CallSwap \/ CallRam \/ CallZram \/ Assemble \/ PrintLine

Spec == Init /\ [][Next]_vars

(***************************************************************************)
(* get_zram_usage on its own, against every listing and swaps file.        *)
(***************************************************************************)
InitZram ==
    /\ args = [f \in Flags |-> FALSE]
    /\ pc = "zram"
    /\ cpu = None /\ temp = None /\ swap = None
    /\ used_ram = None /\ total_ram = None /\ cached_ram = None
    /\ zram = None
    /\ output_parts = <<>>
    /\ stdout = <<>>
    /\ calls = <<>>
    /\ crashSite = "none"
    /\ zram_env = None
    /\ zram_locals = ZramAcc0
    /\ opened_swaps = FALSE

NextZram == \E l \in Listings, f \in ZramSwapsFiles : ZramCall(Ok(l), f)

SpecZram == InitZram /\ [][NextZram]_vars

(***************************************************************************)
(* Properties.                                                             *)
(***************************************************************************)
AllFlagsOff(fs) == \A f \in fs : ~args[f]
Called(reader) == \E i \in 1..Len(calls) : calls[i] = reader

IsGlyph(tok) == "glyph" \in DOMAIN tok
IsEsc(tok) == "esc" \in DOMAIN tok
HasToken(frag, tok) == \E k \in 1..Len(frag) : frag[k] = tok

\* The metric a fragment belongs to, by its leading icon or tag, as its
\* place in the output order CPU, temperature, RAM, zram, swap.
Kind(frag) ==
    CASE frag[1] \in {Lit("cpu"), Glyph("brain")} -> 1
      [] frag[1] \in {Lit("temp"), Glyph("thermometer")} -> 2
      [] frag[1] \in {Lit("ram"), Glyph("floppy")} -> 3
      [] frag[1] \in {Lit("zram"), Glyph("package")} -> 4
      [] frag[1] \in {Lit("SWP"), Glyph("disk")} -> 5
      [] OTHER -> 0

HasKind(k) == \E i \in 1..Len(output_parts) : Kind(output_parts[i]) = k

Printed == pc = "done"

\* C1: once its readers have returned, main() never terminates abnormally,
\* whatever values they returned and whatever the flags, and a finished run
\* has printed exactly one line.
C1_MainAlwaysPrints ==
    /\ crashSite /= "main"
    /\ Printed => Len(stdout) = 1

\* C2: no reader other than the CPU-load reader lets a failure of one of its
\* I/O steps out: an uncaught exception never comes out of get_cpu_temp,
\* get_ram_usage, get_zram_usage or get_swap_usage.
C2_ReadersFaultIsolated ==
    crashSite \notin {"get_cpu_temp", "get_ram_usage", "get_zram_usage", "get_swap_usage"}

\* C3: the cached value get_ram_usage returns is never negative.
C3_CachedNonNegative == cached_ram.some => cached_ram.v >= 0

\* C4: in the printed line the fragments stand in the order CPU, temperature,
\* RAM, zram, swap, each at most once, while the readers were called in the
\* order CPU load, CPU temperature, swap, RAM, zram; and a CPU, temperature,
\* RAM or swap fragment is there exactly when the metric is not disabled and
\* its reader returned a value.
CallOrder == <<"get_cpu_usage", "get_cpu_temp", "get_swap_usage", "get_ram_usage", "get_zram_usage">>
ReaderFlag(r) ==
    CASE r = "get_cpu_usage" -> "no_cpu"
      [] r = "get_cpu_temp" -> "no_cpu_temp"
      [] r = "get_swap_usage" -> "no_swap"
      [] r = "get_ram_usage" -> "no_ram"
      [] r = "get_zram_usage" -> "no_zram"
ReaderEnabled(r) == ~args[ReaderFlag(r)]

C4_OutputOrderFixed ==
    Printed =>
        /\ \A i, j \in 1..Len(output_parts) : i < j => Kind(output_parts[i]) < Kind(output_parts[j])
        /\ \A i \in 1..Len(output_parts) : Kind(output_parts[i]) \in 1..5
        /\ calls = SelectSeq(CallOrder, ReaderEnabled)
        /\ HasKind(1) <=> (~args["no_cpu"] /\ Called("get_cpu_usage") /\ cpu.some)
        /\ HasKind(2) <=> (~args["no_cpu_temp"] /\ Called("get_cpu_temp") /\ temp.some)
        /\ HasKind(3) <=> (~args["no_ram"] /\ Called("get_ram_usage") /\ used_ram.some)
        /\ HasKind(5) <=> (~args["no_swap"] /\ Called("get_swap_usage") /\ swap.some)

C4_Witness ==
    /\ Printed
    /\ Len(output_parts) = 5
    /\ calls = CallOrder
    /\ zram.some

\* C5: with zram enabled and nothing returned by its reader the line has the
\* fragment "<zram icon or tag> -"; with zram disabled it has no zram
\* fragment; and no CPU, temperature, RAM or swap fragment is a placeholder:
\* each of them is printed only for a value that is there.
PlaceholderOf(tag) == <<tag, Lit(" -")>>

C5_ZramPlaceholderOnly ==
    Printed =>
        /\ (~args["no_zram"] /\ ~zram.some) =>
              /\ \E i \in 1..Len(output_parts) :
                    output_parts[i] = PlaceholderOf(IF args["minimal"] THEN Lit("zram") ELSE Glyph("package"))
              /\ \A i \in 1..Len(output_parts) :
                    Kind(output_parts[i]) = 4 => Len(output_parts[i]) = 2
        /\ args["no_zram"] => ~HasKind(4)
        /\ \A i \in 1..Len(output_parts) :
              Kind(output_parts[i]) /= 4 =>
                  /\ ~HasToken(output_parts[i], Lit(" -"))
                  /\ Kind(output_parts[i]) = 1 => cpu.some
                  /\ Kind(output_parts[i]) = 2 => temp.some
                  /\ Kind(output_parts[i]) = 3 => used_ram.some
                  /\ Kind(output_parts[i]) = 5 => swap.some

C5_Witness ==
    /\ Printed
    /\ ~args["no_zram"] /\ Called("get_zram_usage") /\ ~zram.some
    /\ ~args["no_cpu_temp"] /\ ~temp.some
    /\ ~args["no_swap"] /\ ~swap.some

\* C6: with all of no_cpu, no_cpu_temp, no_ram, no_zram and no_swap set, no
\* reader is ever called and the one line printed is empty.
MetricFlags == {"no_cpu", "no_cpu_temp", "no_ram", "no_zram", "no_swap"}
AllDisabled == \A f \in MetricFlags : args[f]

C6_AllDisabledEmptyLine ==
    AllDisabled =>
        /\ calls = <<>>
        /\ pc /= "crashed"
        /\ Printed => stdout = << <<>> >>

C6_Witness == AllDisabled /\ Printed /\ args["ratio"] /\ args["saved"] /\ ~args["minimal"]

\* C7: in minimal mode no token of the output is a colour escape or an icon
\* glyph, and every fragment starts with its literal tag.
Tags == {Lit("cpu"), Lit("temp"), Lit("ram"), Lit("zram"), Lit("SWP")}

C7_MinimalPlainText ==
    (Printed /\ args["minimal"]) =>
        /\ \A i \in 1..Len(output_parts) :
              /\ output_parts[i][1] \in Tags
              /\ \A k \in 1..Len(output_parts[i]) :
                    ~IsGlyph(output_parts[i][k]) /\ ~IsEsc(output_parts[i][k])
        /\ \A k \in 1..Len(stdout[1]) : ~IsGlyph(stdout[1][k]) /\ ~IsEsc(stdout[1][k])

C7_Witness ==
    /\ Printed /\ args["minimal"] /\ args["ratio"]
    /\ Len(output_parts) = 5
    /\ swap.some /\ swap.v[1] > 0
    /\ zram.some /\ zram.v[1] > 0

\* C8: a fragment carries the compression ratio "(r:1)" only if the ratio
\* flag is set and the zram reader returned a value with compressed > 0; r is
\* then original/compressed to the nearest tenth; the " -" placeholder never
\* carries it.
IsNearestTenth(r, num, den) == 2 * (10 * num - r * den) <= den /\ 2 * (r * den - 10 * num) <= den

RatioAt(frag, k) ==
    /\ frag[k] = Lit(":1)")
    /\ \E j \in 1..(k - 1) :
          /\ frag[j] = Lit(" (")
          /\ \E m \in (j + 1)..(k - 1) :
                /\ "f1" \in DOMAIN frag[m]
                /\ IsNearestTenth(frag[m].f1, zram.v[2], zram.v[1])

C8_RatioOnlyWhenComputable ==
    Printed =>
        \A i \in 1..Len(output_parts) :
            /\ HasToken(output_parts[i], Lit(" -")) => ~HasToken(output_parts[i], Lit(":1)"))
            /\ \A k \in 1..Len(output_parts[i]) :
                  output_parts[i][k] = Lit(":1)") =>
                      /\ args["ratio"]
                      /\ Kind(output_parts[i]) = 4
                      /\ zram.some
                      /\ zram.v[1] > 0
                      /\ RatioAt(output_parts[i], k)

C8_Witness ==
    /\ Printed /\ args["ratio"] /\ zram.some /\ zram.v[1] > 0 /\ zram.v[2] > zram.v[1]
    /\ \E i \in 1..Len(output_parts) : HasToken(output_parts[i], Lit(":1)"))

(***************************************************************************)
(* The zram reader against its environment.                                *)
(***************************************************************************)
ZramReturned == zram_env.some /\ zram_env.v.sys_block.ok
Listed == zram_env.v.sys_block.v

ZramDevices(entries) == {i \in 1..Len(entries) : StartsWith(entries[i].name, ZRAM)}
ReadableDevices(entries) == {i \in ZramDevices(entries) : entries[i].compr.ok /\ entries[i].orig.ok}

RECURSIVE SumCompr(_, _)
SumCompr(entries, S) ==
    IF S = {} THEN 0
    ELSE LET i == CHOOSE x \in S : TRUE IN entries[i].compr.v + SumCompr(entries, S \ {i})

RECURSIVE SumOrig(_, _)
SumOrig(entries, S) ==
    IF S = {} THEN 0
    ELSE LET i == CHOOSE x \in S : TRUE IN entries[i].orig.v + SumOrig(entries, S \ {i})

\* C9 as stated: /proc/swaps is opened only if the listing has no zram
\* device, and with a device present the result is the kilobyte sums of the
\* counters when the summed original size is positive.
C9_SwapsOnlyWithoutDevice ==
    ZramReturned =>
        /\ opened_swaps => ZramDevices(Listed) = {}
        /\ (ZramDevices(Listed) /= {} /\ SumOrig(Listed, ReadableDevices(Listed)) > 0) =>
              zram = Some(<<SumCompr(Listed, ReadableDevices(Listed)) \div KiB,
                            SumOrig(Listed, ReadableDevices(Listed)) \div KiB>>)

\* C9 amended: /proc/swaps is opened only if the listing has no zram device
\* or the summed original size of its devices is not positive; with a device
\* present and a positive sum it is not opened and the result is the
\* kilobyte sums of the counters, whatever /proc/swaps holds.
C9_SwapsOnlyWithoutUsableDevice ==
    ZramReturned =>
        /\ opened_swaps =>
              (ZramDevices(Listed) = {} \/ SumOrig(Listed, ReadableDevices(Listed)) <= 0)
        /\ (ZramDevices(Listed) /= {} /\ SumOrig(Listed, ReadableDevices(Listed)) > 0) =>
              /\ ~opened_swaps
              /\ zram = Some(<<SumCompr(Listed, ReadableDevices(Listed)) \div KiB,
                               SumOrig(Listed, ReadableDevices(Listed)) \div KiB>>)

C9_Witness ==
    /\ ZramReturned
    /\ ZramDevices(Listed) /= {}
    /\ SumOrig(Listed, ReadableDevices(Listed)) > 0
    /\ SumCompr(Listed, ReadableDevices(Listed)) = 0
    /\ zram_env.v.proc_swaps = SwapsZram
    /\ ~opened_swaps

\* C10: after the block-device loop the running sums are the sums over
\* exactly the zram devices both of whose counter files could be read,
\* wherever an unreadable device stands in the listing; and a result taken
\* from the counters is those sums in kilobytes.
C10_SumsOverReadableDevices ==
    ZramReturned =>
        /\ zram_locals.total_used = SumCompr(Listed, ReadableDevices(Listed))
        /\ zram_locals.total_orig = SumOrig(Listed, ReadableDevices(Listed))
        /\ zram_locals.found <=> ZramDevices(Listed) /= {}
        /\ ~opened_swaps =>
              zram = Some(<<SumCompr(Listed, ReadableDevices(Listed)) \div KiB,
                            SumOrig(Listed, ReadableDevices(Listed)) \div KiB>>)

C10_Witness ==
    /\ ZramReturned
    /\ Len(Listed) = 2
    /\ Listed[1].compr.ok /\ Listed[1].compr.v > 0 /\ ~Listed[1].orig.ok
    /\ StartsWith(Listed[1].name, ZRAM)
    /\ ReadableDevices(Listed) = {2}
    /\ Listed[2].orig.v > 0
    /\ ~opened_swaps /\ zram.some

====
